---- MODULE Spec2Model ----
(***************************************************************************)
(* Model of passl/datasets/preprocess/transforms.py: the registered image  *)
(* operations Clip, RandomApply, RandomGrayscale, Solarization and         *)
(* AutoAugment, their constructors and their calls.                        *)
(*                                                                         *)
(* Python values are records tagged with their Python type in field `py`:  *)
(*   [py |-> "list", items |-> <<...>>]      a list (or "tuple")           *)
(*   [py |-> "dict", name |-> s, kw |-> f]   a configuration record        *)
(*   [py |-> "Clip", min_val, max_val] ...   an operation object           *)
(*   [py |-> "Image", mode, px, ops]         a PIL image                   *)
(*   [py |-> "ndarray", px, den, ops]        a numpy array                 *)
(*   [py |-> "NoneType"]                     None                          *)
(* Probabilities and draws of random.random() are held in thousandths      *)
(* (0.1 is 100, 1 is 1000), on a grid of PGrid steps per unit.  An array   *)
(* element is px[i] / den.                                                 *)
(***************************************************************************)
EXTENDS Integers, Sequences, FiniteSets, TLC

VARIABLES op, args, err, calls, res

vars == <<op, args, err, calls, res>>

\* Steps per unit of the grid of probabilities and random draws.
PGrid == 4
\* Longest transforms list handed to RandomApply.
MaxStages == 2

None == [py |-> "NoneType"]
NoRes == [call |-> "none"]
NoArgs == [ctor |-> "none"]

\* random.random() returns a float in [0, 1): the grid points k / PGrid below 1.
Draws == {(k * 1000) \div PGrid : k \in 0 .. (PGrid - 1)}
\* Values handed in as p: the grid of [0, 1] and one step outside it on each side.
PVals == {(k * 1000) \div PGrid : k \in (0 - 1) .. (PGrid + 1)}
\* The random source seen by one call: the values its next two draws return,
\* one for the gate of RandomApply and one for a stage that draws.
Streams == [1 .. 2 -> Draws]

Min2(a, b) == IF a < b THEN a ELSE b
Max2(a, b) == IF a > b THEN a ELSE b

RECURSIVE MinOf(_)
MinOf(s) == IF Len(s) = 1 THEN s[1] ELSE Min2(s[1], MinOf(Tail(s)))

(***************************************************************************)
(* Clip                                                                    *)
(***************************************************************************)
ClipInit(min_val, max_val) ==
    [py |-> "Clip", min_val |-> min_val, max_val |-> max_val]

\* ndarray.clip(a_min, a_max) is minimum(maximum(x, a_min), a_max) elementwise.
NdClip(x, a_min, a_max) == Min2(Max2(x, a_min), a_max)

\* Mutant: the lower bound is applied last.
ClipCallLowerLast(self, img) ==
    IF img.py # "ndarray"
    THEN [out |-> None, raised |-> "AttributeError"]
    ELSE [out |-> [img EXCEPT !.px = [i \in 1 .. Len(img.px) |->
                        Max2(Min2(img.px[i], self.max_val * img.den),
                             self.min_val * img.den)]],
          raised |-> "none"]

\* Clip.__call__: img.clip(min_val, max_val); a PIL image has no clip method.
\* The elements are px[i] / den, so the bounds are compared scaled by den.
ClipCall(self, img) ==
    IF img.py # "ndarray"
    THEN [out |-> None, raised |-> "AttributeError"]
    ELSE [out |-> [img EXCEPT !.px = [i \in 1 .. Len(img.px) |->
                        NdClip(img.px[i], self.min_val * img.den,
                               self.max_val * img.den)]],
          raised |-> "none"]

(***************************************************************************)
(* Solarization                                                            *)
(***************************************************************************)
SolarizationInit(threshold) == [py |-> "Solarization", threshold |-> threshold]

\* The lookup table ImageOps.solarize builds for the 8-bit values 0..255:
\* i if i < threshold, else 255 - i.
SolarizeLut(threshold) ==
    [i \in 0 .. 255 |-> IF i < threshold THEN i ELSE 255 - i]

\* ImageOps.solarize(image, threshold): needs an image (attribute mode), and
\* applies the table to the bands of an "L" or "RGB" image only.
Solarize(image, threshold) ==
    IF image.py # "Image"
    THEN [out |-> None, raised |-> "AttributeError"]
    ELSE IF image.mode = "P"
    THEN [out |-> None, raised |-> "NotImplementedError"]
    ELSE IF image.mode \notin {"L", "RGB"}
    THEN [out |-> None, raised |-> "OSError"]
    ELSE [out |-> [image EXCEPT !.px = [i \in 1 .. Len(image.px) |->
                        SolarizeLut(threshold)[image.px[i]]]],
          raised |-> "none"]

\* Solarization.__call__
SolarizationCall(self, sample) == Solarize(sample, self.threshold)

(***************************************************************************)
(* NormToOne and ToRGB                                                     *)
(***************************************************************************)
NormToOneInit == [py |-> "NormToOne"]

\* NormToOne.__call__: (img / 255.).astype('float32'); a PIL image cannot be
\* divided.  Each element px[i] / den becomes px[i] / (255 * den).
NormToOneCall(self, img) ==
    IF img.py # "ndarray"
    THEN [out |-> None, raised |-> "TypeError"]
    ELSE [out |-> [img EXCEPT !.den = 255 * @], raised |-> "none"]

ToRGBInit(mode) == [py |-> "ToRGB", mode |-> mode]

\* ToRGB.__call__: an array has no mode; an image already in the mode comes
\* back as it is; sample.convert is the image library's, noted in ops.
ToRGBCall(self, sample) ==
    IF sample.py # "Image"
    THEN [out |-> None, raised |-> "AttributeError"]
    ELSE IF sample.mode # self.mode
    THEN [out |-> [sample EXCEPT !.mode = self.mode, !.ops = Append(@, "convert")],
          raised |-> "none"]
    ELSE [out |-> sample, raised |-> "none"]

(***************************************************************************)
(* RandomGrayscale                                                         *)
(***************************************************************************)
RandomGrayscaleInit(p) == [py |-> "RandomGrayscale", p |-> p]

\* F.to_grayscale(img, num_output_channels): an "L" image for 1 channel, an
\* "RGB" image with equal bands for 3.  The luminance arithmetic belongs to
\* the image library; the conversion is noted in the image's ops.
to_grayscale(img, num_output_channels) ==
    [img EXCEPT !.mode = IF num_output_channels = 1 THEN "L" ELSE "RGB",
                !.ops = Append(@, "to_grayscale")]

\* The result of one call: the input, the output (None when the call raised),
\* the values drawn from the random source, whether the gate let the call
\* through, the stages run (index, stage, input, output of each), the number
\* of channels asked of to_grayscale (0 when it was not called) and the number
\* of values the call and its stages together took from the random source.
\* drawn holds the draws of the called method itself, not those of its stages.
Result(call, img, out, raised, drawn, applied, steps, req, used) ==
    [call |-> call, img |-> img, out |-> out, raised |-> raised,
     drawn |-> drawn, applied |-> applied, steps |-> steps, req |-> req,
     used |-> used]

\* RandomGrayscale.__call__: img.mode is read before the draw.
RandomGrayscaleCall(self, img, rs) ==
    IF img.py # "Image"
    THEN Result("RandomGrayscale", img, None, "AttributeError", << >>, FALSE, << >>, 0, 0)
    ELSE LET num_output_channels == IF img.mode = "L" THEN 1 ELSE 3
         IN IF rs[1] < self.p
            THEN Result("RandomGrayscale", img, to_grayscale(img, num_output_channels),
                        "none", <<rs[1]>>, TRUE, << >>, num_output_channels, 1)
            ELSE Result("RandomGrayscale", img, img, "none", <<rs[1]>>, FALSE, << >>, 0, 1)

(***************************************************************************)
(* Registry and builder                                                    *)
(***************************************************************************)
\* The names registered in TRANSFORMS, each derived from the class.
Registry ==
    {"RandomResizedCrop", "ColorJitter", "Transpose", "Normalize",
     "RandomHorizontalFlip", "Resize", "CenterCrop", "ToTensor",
     "ByolRandomHorizontalFlip", "ByolColorJitter", "ByolRandomGrayscale",
     "ByolNormalize", "ToCHW", "ByolToRGB", "ByolRandomCrop", "ByolCenterCrop",
     "RandomErasing", "Mixup", "Clip", "NormToOne", "RandomApply",
     "RandomGrayscale", "GaussianBlur", "Solarization", "ToRGB", "AutoAugment"}

\* The classes of this file the model constructs through the builder, and the
\* keyword parameters their constructors accept.
Built == {"Clip", "NormToOne", "RandomGrayscale", "Solarization", "ToRGB"}
Params(name) ==
    CASE name = "Clip" -> {"min_val", "max_val"}
      [] name = "NormToOne" -> {}
      [] name = "RandomGrayscale" -> {"p"}
      [] name = "Solarization" -> {"threshold"}
      [] name = "ToRGB" -> {"mode"}

Kw(kw, key, default) == IF key \in DOMAIN kw THEN kw[key] ELSE default

\* build_transform(cfg): resolve cfg's name in the registry and instantiate it
\* with the remaining entries as keyword arguments.  An operation of a
\* registered class outside Built is kept as its class name and its arguments.
build_transform(cfg) ==
    IF cfg.name \notin Registry
    THEN [obj |-> None, err |-> "UnknownOperationError"]
    ELSE IF cfg.name \in Built /\ ~(DOMAIN cfg.kw \subseteq Params(cfg.name))
    THEN [obj |-> None, err |-> "InvalidParamsError"]
    ELSE [obj |-> CASE cfg.name = "Clip" ->
                        ClipInit(Kw(cfg.kw, "min_val", 0), Kw(cfg.kw, "max_val", 1))
                    [] cfg.name = "NormToOne" -> NormToOneInit
                    [] cfg.name = "RandomGrayscale" ->
                        RandomGrayscaleInit(Kw(cfg.kw, "p", 100))
                    [] cfg.name = "Solarization" ->
                        SolarizationInit(Kw(cfg.kw, "threshold", 128))
                    [] cfg.name = "ToRGB" -> ToRGBInit(Kw(cfg.kw, "mode", "RGB"))
                    [] OTHER -> [py |-> cfg.name, kw |-> cfg.kw],
          err |-> "none"]

(***************************************************************************)
(* RandomApply                                                             *)
(***************************************************************************)
\* The loop of RandomApply.__init__ from entry i on: acc holds the operations
\* appended so far, the builder calls made and the error that ended the loop.
RECURSIVE BuildEntries(_, _, _)
BuildEntries(items, i, acc) ==
    IF i > Len(items) \/ acc.err # "none"
    THEN acc
    ELSE IF items[i].py = "dict"
         THEN LET b == build_transform(items[i])
              IN BuildEntries(items, i + 1,
                     [ts |-> IF b.err = "none" THEN Append(acc.ts, b.obj) ELSE acc.ts,
                      err |-> b.err,
                      calls |-> Append(acc.calls,
                                       [fn |-> "build_transform", cfg |-> items[i]])])
         ELSE BuildEntries(items, i + 1, [acc EXCEPT !.ts = Append(@, items[i])])

NoEntries == [ts |-> << >>, err |-> "none", calls |-> << >>]

\* Mutant: an entry the builder fails on is skipped and the loop goes on.
RECURSIVE BuildEntriesSkipFailed(_, _, _)
BuildEntriesSkipFailed(items, i, acc) ==
    IF i > Len(items)
    THEN acc
    ELSE IF items[i].py = "dict"
         THEN LET b == build_transform(items[i])
              IN BuildEntriesSkipFailed(items, i + 1,
                     [ts |-> IF b.err = "none" THEN Append(acc.ts, b.obj) ELSE acc.ts,
                      err |-> "none",
                      calls |-> Append(acc.calls,
                                       [fn |-> "build_transform", cfg |-> items[i]])])
         ELSE BuildEntriesSkipFailed(items, i + 1, [acc EXCEPT !.ts = Append(@, items[i])])

RandomApplyInitSkipFailed(transforms, p) ==
    LET acc == IF transforms.py \in {"list", "tuple"}
               THEN BuildEntriesSkipFailed(transforms.items, 1, NoEntries)
               ELSE NoEntries
    IN [obj |-> [py |-> "RandomApply", transforms |-> acc.ts, p |-> p],
        err |-> "none", calls |-> acc.calls]

\* Mutant: a lone entry is treated as a list of one.
RandomApplyInitWrapSingle(transforms, p) ==
    LET acc == IF transforms.py \in {"list", "tuple"}
               THEN BuildEntries(transforms.items, 1, NoEntries)
               ELSE BuildEntries(<<transforms>>, 1, NoEntries)
    IN [obj |-> IF acc.err = "none"
                THEN [py |-> "RandomApply", transforms |-> acc.ts, p |-> p]
                ELSE None,
        err |-> acc.err, calls |-> acc.calls]

\* RandomApply.__init__: an exception of the builder leaves no object.
RandomApplyInit(transforms, p) ==
    LET acc == IF transforms.py \in {"list", "tuple"}
               THEN BuildEntries(transforms.items, 1, NoEntries)
               ELSE NoEntries
    IN [obj |-> IF acc.err = "none"
                THEN [py |-> "RandomApply", transforms |-> acc.ts, p |-> p]
                ELSE None,
        err |-> acc.err, calls |-> acc.calls]

RECURSIVE Invoke(_, _, _)
RECURSIVE RunStages(_, _, _, _)
RECURSIVE RandomApplyCall(_, _, _)

\* The outcome of one stage: its output, its exception and the number of
\* values it took from the random source.
Stage(r, used) == [out |-> r.out, raised |-> r.raised, used |-> used]

\* Mutant: one draw per stage, each stage gated on its own.
RECURSIVE RunStagesGated(_, _, _, _, _)
RunStagesGated(ts, i, st, p, rs) ==
    IF i > Len(ts) \/ st.raised # "none"
    THEN st
    ELSE LET d == rs[((i - 1) % Len(rs)) + 1]
         IN IF p < d
            THEN RunStagesGated(ts, i + 1, [st EXCEPT !.drawn = Append(@, d)], p, rs)
            ELSE LET r == Invoke(ts[i], st.out, rs)
                 IN RunStagesGated(ts, i + 1,
                        [out |-> r.out, raised |-> r.raised, drawn |-> Append(st.drawn, d),
                         steps |-> Append(st.steps,
                                     [i |-> i, t |-> ts[i], in |-> st.out, out |-> r.out])],
                        p, rs)

RandomApplyCallPerStage(self, img, rs) ==
    LET st == RunStagesGated(self.transforms, 1,
                  [out |-> img, raised |-> "none", drawn |-> << >>, steps |-> << >>],
                  self.p, rs)
    IN Result("RandomApply", img, st.out, st.raised, st.drawn, st.steps # << >>,
              st.steps, 0, Len(st.drawn))

\* t(img) for a stage t of a sub-pipeline, rs being what the random source
\* returns from here on.  The stages are operations of the classes modelled
\* here; a value that is no operation (None, a str, a number) cannot be called.
Invoke(t, img, rs) ==
    CASE t.py = "Clip" -> Stage(ClipCall(t, img), 0)
      [] t.py = "Solarization" -> Stage(SolarizationCall(t, img), 0)
      [] t.py = "NormToOne" -> Stage(NormToOneCall(t, img), 0)
      [] t.py = "ToRGB" -> Stage(ToRGBCall(t, img), 0)
      [] t.py = "RandomGrayscale" ->
            LET r == RandomGrayscaleCall(t, img, rs) IN Stage(r, r.used)
      [] t.py = "RandomApply" ->
            LET r == RandomApplyCall(t, img, rs) IN Stage(r, r.used)
      [] t.py \in {"NoneType", "str", "int"} ->
            [out |-> None, raised |-> "TypeError", used |-> 0]

\* The loop of RandomApply.__call__ from stage i on; an exception ends it.
\* st.used counts the values taken from rs so far.
RunStages(ts, i, st, rs) ==
    IF i > Len(ts) \/ st.raised # "none"
    THEN st
    ELSE LET r == Invoke(ts[i], st.out, SubSeq(rs, st.used + 1, Len(rs)))
         IN RunStages(ts, i + 1,
                [out |-> r.out, raised |-> r.raised, used |-> st.used + r.used,
                 steps |-> Append(st.steps,
                             [i |-> i, t |-> ts[i], in |-> st.out, out |-> r.out])],
                rs)

\* RandomApply.__call__: one draw; the input comes back when p < draw.
RandomApplyCall(self, img, rs) ==
    IF self.p < rs[1]
    THEN Result("RandomApply", img, img, "none", <<rs[1]>>, FALSE, << >>, 0, 1)
    ELSE LET st == RunStages(self.transforms, 1,
                       [out |-> img, raised |-> "none", used |-> 1, steps |-> << >>],
                       rs)
         IN Result("RandomApply", img, st.out, st.raised, <<rs[1]>>, TRUE, st.steps,
                   0, st.used)

(***************************************************************************)
(* AutoAugment                                                             *)
(***************************************************************************)
\* A Python str: s is a TLA+ string where the code only compares it whole
\* (interpolation), a tuple of characters where it tests a prefix (config_str).
Str(s) == [py |-> "str", s |-> s]

\* bool(v) for None and str.
Truthy(v) == v.py = "str" /\ v.s # ""

\* str.startswith
startswith(s, prefix) ==
    Len(s) >= Len(prefix) /\ SubSeq(s, 1, Len(prefix)) = prefix

_pil_interp(method) ==
    CASE method = "bicubic" -> "BICUBIC"
      [] method = "lanczos" -> "LANCZOS"
      [] method = "hamming" -> "HAMMING"
      [] OTHER -> "BILINEAR"

\* Mutant: every string is looked up, "random" and "" included.
AaInterpolationAlways(aa_params, interpolation) ==
    IF interpolation.py = "str"
    THEN aa_params @@ ("interpolation" :> _pil_interp(interpolation.s))
    ELSE aa_params @@ ("interpolation" :> "BILINEAR")

\* AutoAugment.__init__, the interpolation entry of aa_params.
AaInterpolation(aa_params, interpolation) ==
    IF Truthy(interpolation) /\ interpolation.s # "random"
    THEN aa_params @@ ("interpolation" :> _pil_interp(interpolation.s))
    ELSE aa_params

\* round(n / d) of Python 3 for n >= 0, d > 0: halves go to the even neighbour.
Round(n, d) ==
    LET q == n \div d
        r == n % d
    IN IF 2 * r < d THEN q
       ELSE IF 2 * r > d THEN q + 1
       ELSE IF q % 2 = 0 THEN q ELSE q + 1

\* AutoAugment.__init__, aa_params before the dispatch.  mean holds thousandths
\* (0.485 is 485); int(img_size_min * 0.45) is the floor for sizes >= 0.
AaParams(img_size, interpolation, mean) ==
    LET img_size_min == IF img_size.py = "tuple" THEN MinOf(img_size.items)
                        ELSE img_size.v
    IN AaInterpolation(
           [translate_const |-> (img_size_min * 45) \div 100,
            img_mean |-> [i \in 1 .. Len(mean) |-> Min2(255, Round(255 * mean[i], 1000))]],
           interpolation)

\* What a policy factory returns: the policy function, known by the call that made it.
Policy(fn, config_str, aa_params) ==
    [py |-> "function", fn |-> fn, config_str |-> config_str, aa_params |-> aa_params]

\* translate_pct = 0.3
TranslatePct == [num |-> 3, den |-> 10]

\* Mutant: translate_pct is set before the dispatch, for every branch.
AaDispatchPctFirst(config_str, aa_params) ==
    LET cs == config_str.s
        pp == aa_params @@ ("translate_pct" :> TranslatePct)
    IN IF startswith(cs, <<"r", "a", "n", "d">>)
       THEN [transform |-> Policy("rand_augment_transform", config_str, pp),
             calls |-> <<Policy("rand_augment_transform", config_str, pp)>>]
       ELSE IF startswith(cs, <<"a", "u", "g", "m", "i", "x">>)
       THEN [transform |-> Policy("augment_and_mix_transform", config_str, pp),
             calls |-> <<Policy("augment_and_mix_transform", config_str, pp)>>]
       ELSE IF cs = << >>
       THEN [transform |-> None, calls |-> << >>]
       ELSE [transform |-> Policy("auto_augment_transform", config_str, pp),
             calls |-> <<Policy("auto_augment_transform", config_str, pp)>>]

\* AutoAugment.__init__, the dispatch on config_str.
AaDispatch(config_str, aa_params) ==
    LET cs == config_str.s
    IN IF startswith(cs, <<"r", "a", "n", "d">>)
       THEN [transform |-> Policy("rand_augment_transform", config_str, aa_params),
             calls |-> <<Policy("rand_augment_transform", config_str, aa_params)>>]
       ELSE IF startswith(cs, <<"a", "u", "g", "m", "i", "x">>)
       THEN LET pp == aa_params @@ ("translate_pct" :> TranslatePct)
            IN [transform |-> Policy("augment_and_mix_transform", config_str, pp),
                calls |-> <<Policy("augment_and_mix_transform", config_str, pp)>>]
       ELSE IF cs = << >>
       THEN [transform |-> None, calls |-> << >>]
       ELSE [transform |-> Policy("auto_augment_transform", config_str, aa_params),
             calls |-> <<Policy("auto_augment_transform", config_str, aa_params)>>]

\* AutoAugment.__init__
AutoAugmentInit(config_str, img_size, interpolation, mean) ==
    IF config_str.py # "str"
    THEN [obj |-> None, err |-> "AssertionError", calls |-> << >>]
    ELSE LET d == AaDispatch(config_str, AaParams(img_size, interpolation, mean))
         IN [obj |-> [py |-> "AutoAugment", transform |-> d.transform],
             err |-> "none", calls |-> d.calls]

\* AutoAugment._apply_image: the policy's own work on the image belongs to the
\* policy tables; its application is noted in the image's ops.
AutoAugmentApply(self, img) ==
    IF self.transform # None
    THEN Result("AutoAugment", img, [img EXCEPT !.ops = Append(@, self.transform)],
                "none", << >>, TRUE, << >>, 0, 0)
    ELSE Result("AutoAugment", img, img, "none", << >>, FALSE, << >>, 0, 0)

(***************************************************************************)
(* Inputs                                                                  *)
(***************************************************************************)
\* Array elements and clip bounds lie within ValSpan steps of 0 (one more above).
ValSpan == 2
\* Longest array handed to Clip.
MaxPix == 2

Img(mode, px) == [py |-> "Image", mode |-> mode, px |-> px, ops |-> << >>]
Arr(px) == [py |-> "ndarray", px |-> px, den |-> 1, ops |-> << >>]
List(items) == [py |-> "list", items |-> items]
Tuple(items) == [py |-> "tuple", items |-> items]
PyInt(v) == [py |-> "int", v |-> v]
Cfg(name, kw) == [py |-> "dict", name |-> name, kw |-> kw]

SeqsUpTo(S, n) == UNION {[1 .. k -> S] : k \in 0 .. n}

ClipBounds == (0 - 1) .. ValSpan
ArrVals == (0 - ValSpan) .. (ValSpan + 1)
Arrays == {Arr(s) : s \in SeqsUpTo(ArrVals, MaxPix) \ {<< >>}}

\* One-pixel 8-bit images of every value, and one image of each mode.
GrayImages == {Img("L", <<v>>) : v \in 0 .. 255}
Modes == {"L", "RGB", "RGBA", "I", "1", "P"}
ModeImages == {Img(m, <<0, 255>>) : m \in Modes}
Thresholds == {0, 1, 127, 128, 129, 255, 256}

Entries ==
    {Cfg("Solarization", [threshold |-> 64]), Cfg("Clip", << >>),
     Cfg("NoSuchTransform", << >>), Cfg("Solarization", [thresh |-> 64]),
     Cfg("ToRGB", << >>), Cfg("NormToOne", << >>), RandomGrayscaleInit(500)}
\* The lists tried hold at most one stage that draws.
OneDraw(s) == Cardinality({i \in 1 .. Len(s) : s[i].py = "RandomGrayscale"}) <= 1
TransformArgs ==
    {List(s) : s \in {x \in SeqsUpTo(Entries, MaxStages) : OneDraw(x)}}
    \cup {Tuple(s) : s \in SeqsUpTo(Entries, 1)}
    \cup Entries \cup {None}
\* An array NormToOne has returned: the elements -300/255 and 300/255.
NormedArray == [Arr(<<0 - 300, 300>>) EXCEPT !.den = 255]
PipelineImages == {Img("L", <<100>>), Img("L", <<20, 200>>), Img("RGBA", <<0, 255>>),
                   Arr(<<0 - 1, 3>>)}

Words ==
    {<<"r", "a", "n", "d", "m", "9">>,
     <<"a", "u", "g", "m", "i", "x", "-", "m", "5">>,
     <<"o", "r", "i", "g", "i", "n", "a", "l">>,
     <<"x", "r", "a", "n", "d">>}
\* Every prefix of every word, and None for a config_str that is no str.
ConfigStrs ==
    UNION {{Str(SubSeq(w, 1, n)) : n \in 0 .. Len(w)} : w \in Words} \cup {None}
ImgSizes == {PyInt(224), Tuple(<<256, 192>>)}
Interpolations ==
    {Str("bicubic"), Str("lanczos"), Str("hamming"), Str("bilinear"),
     Str("unknown"), Str("random"), Str(""), None}
\* IMAGENET_DEFAULT_MEAN, and a mean with a half and a value above 1.
Means == {<<485, 456, 406>>, <<0, 500, 2000>>}

(***************************************************************************)
(* State machine: one operation is constructed, then applied to samples.   *)
(* op is the constructed object (None before, and after a constructor that *)
(* raised), args the constructor's arguments, err the exception it raised, *)
(* calls the builder and factory calls it made, res the last call.         *)
(***************************************************************************)
Init ==
    /\ op = None
    /\ args = NoArgs
    /\ err = "none"
    /\ calls = << >>
    /\ res = NoRes

Fresh == op = None /\ err = "none"

NewClip(min_val, max_val) ==
    /\ Fresh
    /\ args' = [ctor |-> "Clip", min_val |-> min_val, max_val |-> max_val]
    /\ op' = ClipInit(min_val, max_val)
    /\ UNCHANGED <<err, calls, res>>

NewSolarization(threshold) ==
    /\ Fresh
    /\ args' = [ctor |-> "Solarization", threshold |-> threshold]
    /\ op' = SolarizationInit(threshold)
    /\ UNCHANGED <<err, calls, res>>

NewRandomGrayscale(p) ==
    /\ Fresh
    /\ args' = [ctor |-> "RandomGrayscale", p |-> p]
    /\ op' = RandomGrayscaleInit(p)
    /\ UNCHANGED <<err, calls, res>>

NewRandomApply(transforms, p) ==
    /\ Fresh
    /\ args' = [ctor |-> "RandomApply", transforms |-> transforms, p |-> p]
    /\ LET r == RandomApplyInit(transforms, p)
       IN op' = r.obj /\ err' = r.err /\ calls' = r.calls
    /\ UNCHANGED res

NewAutoAugment(config_str, img_size, interpolation, mean) ==
    /\ Fresh
    /\ args' = [ctor |-> "AutoAugment", config_str |-> config_str,
                img_size |-> img_size, interpolation |-> interpolation, mean |-> mean]
    /\ LET r == AutoAugmentInit(config_str, img_size, interpolation, mean)
       IN op' = r.obj /\ err' = r.err /\ calls' = r.calls
    /\ UNCHANGED res

CallClip(img) ==
    /\ op.py = "Clip"
    /\ LET r == ClipCall(op, img)
       IN res' = Result("Clip", img, r.out, r.raised, << >>, TRUE, << >>, 0, 0)
    /\ UNCHANGED <<op, args, err, calls>>

CallSolarization(sample) ==
    /\ op.py = "Solarization"
    /\ LET r == SolarizationCall(op, sample)
       IN res' = Result("Solarization", sample, r.out, r.raised, << >>, TRUE, << >>, 0, 0)
    /\ UNCHANGED <<op, args, err, calls>>

CallRandomGrayscale(img, rs) ==
    /\ op.py = "RandomGrayscale"
    /\ res' = RandomGrayscaleCall(op, img, rs)
    /\ UNCHANGED <<op, args, err, calls>>

CallRandomApply(img, rs) ==
    /\ op.py = "RandomApply"
    /\ res' = RandomApplyCall(op, img, rs)
    /\ UNCHANGED <<op, args, err, calls>>

CallAutoAugment(img) ==
    /\ op.py = "AutoAugment"
    /\ res' = AutoAugmentApply(op, img)
    /\ UNCHANGED <<op, args, err, calls>>

Next ==
    \/ \E a, b \in ClipBounds : NewClip(a, b)
    \/ \E t \in Thresholds : NewSolarization(t)
    \/ \E p \in PVals : NewRandomGrayscale(p)
    \/ \E ts \in TransformArgs, p \in PVals : NewRandomApply(ts, p)
    \/ \E cs \in ConfigStrs, sz \in ImgSizes, ip \in Interpolations, m \in Means :
           NewAutoAugment(cs, sz, ip, m)
    \/ \E img \in Arrays \cup {Img("L", <<100>>), NormedArray} : CallClip(img)
    \/ \E img \in GrayImages \cup ModeImages \cup {Arr(<<1>>)} : CallSolarization(img)
    \/ \E img \in ModeImages \cup {Arr(<<1>>)}, rs \in Streams : CallRandomGrayscale(img, rs)
    \/ \E img \in PipelineImages, rs \in Streams : CallRandomApply(img, rs)
    \/ \E img \in {Img("RGB", <<0, 255>>), Img("L", <<100>>)} : CallAutoAugment(img)

Spec == Init /\ [][Next]_vars

(***************************************************************************)
(* Properties                                                              *)
(***************************************************************************)
InUnit(p) == 0 <= p /\ p <= 1000

\* C1: for p in [0,1], a call of RandomApply applies its sub-pipeline iff the
\* drawn value is below p; with p = 0 it never applies and returns its input.
ClaimC1 ==
    (res.call = "RandomApply" /\ InUnit(op.p) /\ res.raised = "none") =>
        /\ op.transforms # << >> => (res.steps # << >> <=> res.drawn[1] < op.p)
        /\ op.p = 0 => (res.steps = << >> /\ res.out = res.img)
        /\ op.p = 1000 => res.applied

\* C2: a call of RandomApply makes one draw of its own (a stage with a gate
\* of its own makes its own); when no stage raises, either every stage ran
\* once, in list order, each on the previous stage's output, or no stage ran
\* and the input came back.
ClaimC2 ==
    res.call = "RandomApply" =>
        /\ Len(res.drawn) = 1
        /\ res.raised = "none" =>
            \/ /\ Len(res.steps) = Len(op.transforms)
               /\ \A k \in 1 .. Len(res.steps) :
                    /\ res.steps[k].i = k
                    /\ res.steps[k].in = IF k = 1 THEN res.img ELSE res.steps[k - 1].out
                    /\ res.steps[k].t = op.transforms[k]
               /\ res.out = IF res.steps = << >> THEN res.img
                            ELSE res.steps[Len(res.steps)].out
            \/ res.steps = << >> /\ res.out = res.img

WitnessC2 ==
    /\ res.call = "RandomApply"
    /\ res.raised = "none"
    /\ Len(res.steps) = 2
    /\ op.transforms[1] # op.transforms[2]
    /\ res.out # res.img

\* C3: RandomApply built from a list of N entries holds N stages in input
\* order, a pre-built operation as given and a record as the operation the
\* builder returns; when the builder fails on a record there is no object.
ClaimC3 ==
    (args.ctor = "RandomApply" /\ args.transforms.py \in {"list", "tuple"}) =>
        LET items == args.transforms.items
            failing == {i \in 1 .. Len(items) :
                          items[i].py = "dict" /\ build_transform(items[i]).err # "none"}
        IN IF failing = {}
           THEN /\ err = "none"
                /\ op.py = "RandomApply"
                /\ Len(op.transforms) = Len(items)
                /\ \A i \in 1 .. Len(items) :
                     op.transforms[i] = IF items[i].py = "dict"
                                        THEN build_transform(items[i]).obj
                                        ELSE items[i]
           ELSE /\ op = None
                /\ err # "none"
                /\ res = NoRes

WitnessC3 ==
    /\ args.ctor = "RandomApply"
    /\ args.transforms.py = "list"
    /\ op.py = "RandomApply"
    /\ Len(op.transforms) = 2
    /\ args.transforms.items[1].py = "dict"
    /\ args.transforms.items[2].py # "dict"

\* C4: AutoAugment's constructor calls exactly the factory config_str selects:
\* rand-augment for a "rand" prefix, augmix (with translate_pct = 0.3, absent
\* otherwise) for an "augmix" prefix, none for "" (calls return the image),
\* the generic factory otherwise; calls apply the policy the factory returned.
ClaimC4 ==
    (args.ctor = "AutoAugment" /\ args.config_str.py = "str") =>
        LET cs == args.config_str.s
            isRand == startswith(cs, <<"r", "a", "n", "d">>)
            isAugmix == startswith(cs, <<"a", "u", "g", "m", "i", "x">>)
            fn == IF isRand THEN "rand_augment_transform"
                  ELSE IF isAugmix THEN "augment_and_mix_transform"
                  ELSE "auto_augment_transform"
        IN IF cs = << >>
           THEN /\ calls = << >>
                /\ op.py = "AutoAugment"
                /\ res.call = "AutoAugment" => res.out = res.img
           ELSE /\ Len(calls) = 1
                /\ calls[1].fn = fn
                /\ calls[1].config_str = args.config_str
                /\ IF isAugmix /\ ~isRand
                   THEN /\ "translate_pct" \in DOMAIN calls[1].aa_params
                        /\ calls[1].aa_params.translate_pct = [num |-> 3, den |-> 10]
                   ELSE "translate_pct" \notin DOMAIN calls[1].aa_params
                /\ op.py = "AutoAugment"
                /\ op.transform = calls[1]
                /\ res.call = "AutoAugment" =>
                       res.out = [res.img EXCEPT !.ops = Append(@, calls[1])]

WitnessC4 ==
    /\ args.ctor = "AutoAugment"
    /\ Len(calls) = 1
    /\ calls[1].fn = "augment_and_mix_transform"
    /\ res.call = "AutoAugment"

\* The interpolation mode the claim names for a value of the argument.
InterpOf(v) ==
    IF v.py # "str" THEN "BILINEAR"
    ELSE CASE v.s = "bicubic" -> "BICUBIC"
           [] v.s = "lanczos" -> "LANCZOS"
           [] v.s = "hamming" -> "HAMMING"
           [] OTHER -> "BILINEAR"

\* C5 (as claimed): the record passed to the factory has an interpolation entry,
\* BICUBIC, LANCZOS or HAMMING for those names and BILINEAR for every other
\* value of the argument, "random" and unset included.
ClaimC5 ==
    (args.ctor = "AutoAugment" /\ Len(calls) = 1) =>
        /\ "interpolation" \in DOMAIN calls[1].aa_params
        /\ calls[1].aa_params.interpolation = InterpOf(args.interpolation)

\* C5 (amended): the entry is as claimed for every non-empty string other than
\* "random"; for "random", "" and None the record has no interpolation entry.
AmendedC5 ==
    (args.ctor = "AutoAugment" /\ Len(calls) = 1) =>
        IF args.interpolation \in {Str("random"), Str(""), None}
        THEN "interpolation" \notin DOMAIN calls[1].aa_params
        ELSE /\ "interpolation" \in DOMAIN calls[1].aa_params
             /\ calls[1].aa_params.interpolation = InterpOf(args.interpolation)

WitnessC5 ==
    /\ args.ctor = "AutoAugment"
    /\ Len(calls) = 1
    /\ args.interpolation = Str("random")
    /\ "interpolation" \notin DOMAIN calls[1].aa_params

\* C6: constructing RandomApply or RandomGrayscale with p outside [0,1] fails
\* with an invalid-parameters error and creates no object.
ClaimC6 ==
    (args.ctor \in {"RandomApply", "RandomGrayscale"} /\ ~InUnit(args.p)) =>
        (op = None /\ err = "InvalidParamsError")

\* The number of bands of a PIL image of the given mode.
Bands(mode) ==
    CASE mode \in {"1", "L", "P", "I", "F"} -> 1
      [] mode = "LA" -> 2
      [] mode \in {"RGB", "YCbCr", "LAB", "HSV"} -> 3
      [] mode \in {"RGBA", "CMYK"} -> 4

\* C7: RandomGrayscale with p = 0 returns its input, with p = 1 it grayscales
\* on every call, and whenever it grayscales the number of output channels it
\* requests is the input's channel count.
ClaimC7 ==
    (res.call = "RandomGrayscale" /\ res.raised = "none") =>
        /\ op.p = 0 => (~res.applied /\ res.out = res.img)
        /\ op.p = 1000 => res.applied
        /\ res.applied => res.req = Bands(res.img.mode)

\* C8: Solarization(threshold = t) maps an 8-bit value v to v when v <= t and
\* to 255 - v when v > t.
ClaimC8 ==
    (res.call = "Solarization" /\ res.raised = "none") =>
        /\ Len(res.out.px) = Len(res.img.px)
        /\ \A i \in 1 .. Len(res.img.px) :
             res.out.px[i] = IF res.img.px[i] <= op.threshold
                             THEN res.img.px[i]
                             ELSE 255 - res.img.px[i]

\* Clip applied again to the output of the last call returns it unchanged.
ClipIdempotent == ClipCall(op, res.out) = [out |-> res.out, raised |-> "none"]

\* C9 (as claimed): for every pair (min_val, max_val), every element of Clip's
\* output lies in [min_val, max_val], and Clip of the output is the output.
ClaimC9 ==
    (res.call = "Clip" /\ res.raised = "none") =>
        /\ \A i \in 1 .. Len(res.out.px) :
             /\ op.min_val * res.out.den <= res.out.px[i]
             /\ res.out.px[i] <= op.max_val * res.out.den
        /\ ClipIdempotent

\* C9 (amended): the range holds for min_val <= max_val; for min_val > max_val
\* every element of the output is max_val; Clip of the output is the output.
AmendedC9 ==
    (res.call = "Clip" /\ res.raised = "none") =>
        /\ Len(res.out.px) = Len(res.img.px)
        /\ \A i \in 1 .. Len(res.out.px) :
             IF op.min_val <= op.max_val
             THEN /\ op.min_val * res.out.den <= res.out.px[i]
                  /\ res.out.px[i] <= op.max_val * res.out.den
             ELSE res.out.px[i] = op.max_val * res.out.den
        /\ ClipIdempotent

WitnessC9 ==
    /\ res.call = "Clip"
    /\ res.raised = "none"
    /\ op.min_val < op.max_val
    /\ Len(res.img.px) = 2
    /\ res.img.px[1] < op.min_val * res.img.den
    /\ res.img.px[2] > op.max_val * res.img.den

\* C10: RandomApply built from an argument that is neither a list nor a tuple
\* raises nothing, calls no builder and holds an empty sub-pipeline: every call
\* returns its input.
ClaimC10 ==
    (args.ctor = "RandomApply" /\ args.transforms.py \notin {"list", "tuple"}) =>
        /\ err = "none"
        /\ calls = << >>
        /\ op.py = "RandomApply"
        /\ op.transforms = << >>
        /\ res.call = "RandomApply" =>
               (res.raised = "none" /\ res.steps = << >> /\ res.out = res.img)

WitnessC10 ==
    /\ args.ctor = "RandomApply"
    /\ args.transforms.py = "dict"
    /\ res.call = "RandomApply"
    /\ res.applied
    /\ res.out = res.img

====
